---- MODULE Spec2Model ----
(***************************************************************************)
(* Blackjack Monte-Carlo simulator (src/main.py): hand valuation, the      *)
(* policies, the round engine BlackjackGame.play_round and the aggregator  *)
(* simulate, as a state machine.                                           *)
(*                                                                         *)
(* Money is a float in the source.  Every amount the model handles is a    *)
(* multiple of one half (bets are whole, the payout factor is a multiple   *)
(* of 1/2), so profit, profit_total and blackjack_payout are held as       *)
(* integers counting halves; bet is held in whole units.  The quotients of *)
(* Summary are held as unreduced fractions [num, den].                     *)
(***************************************************************************)
EXTENDS Integers, Sequences, FiniteSets, TLC

VARIABLES
    pc,             \* position in simulate / play_round
    policy,         \* simulate argument: the policy object
    n_games,        \* simulate argument
    rules,          \* simulate argument (after `rules or Rules()`)
    i,              \* number of completed iterations of `for _ in range(n_games)`
    wins, losses, pushes,
    profit_total,   \* in halves
    player,         \* play_round local: Hand.cards of the player
    dealer,         \* play_round local: Hand.cards of the dealer
    dealer_upcard,  \* play_round local
    action,         \* play_round local: last value returned by policy.decide
    decide_args,    \* arguments of the last policy.decide call of the round
    draws,          \* number of deck.draw() calls made by the current round
    decides,        \* number of policy.decide calls made by the current round
    res,            \* GameResult returned by the current round
    summary,        \* value returned by simulate
    error,          \* exception that left simulate
    gen,            \* the generators: state of the deck's rng, state of the
                    \* policy's rng, and the cards deck.draw() returned so far
    trail,          \* the positions the call passed through, in order
    first,          \* what an earlier call or round left to compare with
    seed,           \* simulate argument
    cap,            \* a hand is not dealt a further card once it holds cap cards
    hand,           \* (valuation runs) the hand under evaluation
    out             \* (valuation runs) the value computed for hand

vars == <<pc, policy, n_games, rules, i, wins, losses, pushes, profit_total,
          player, dealer, dealer_upcard, action, decide_args, draws, decides,
          res, summary, error, gen, trail, first, seed, cap, hand, out>>

simVars == <<policy, n_games, rules, i, wins, losses, pushes, profit_total,
             player, dealer, dealer_upcard, action, decide_args, draws,
             decides, res, summary, error>>

\* the generators and the records kept of a call
genVars == <<gen, trail, first>>

\* what no step of a call changes
pureVars == <<seed, cap, hand, out>>

----------------------------------------------------------------------------
(* Bounds *)

\* largest n_games tried
MaxGames == 2
\* the cap on a hand in the runs of several rounds
MaxHand == 4
\* largest seed given to simulate in the seeded runs
\* ceiling on the cards of a hand in the runs that have to end by themselves
MaxCards == 23

MaxSeed == 31
\* largest seed of the policy's own generator in the seeded runs
MaxPolicySeed == 2
\* longest hand of the valuation runs
MaxLen == 3

----------------------------------------------------------------------------
(* Cards and hands *)

RANKS == <<"A", "2", "3", "4", "5", "6", "7", "8", "9", "10", "J", "Q", "K">>

RankSet == {RANKS[k] : k \in 1..Len(RANKS)}

\* int(rank) on the numeral ranks
IntOfRank(rank) ==
    CASE rank = "2" -> 2 [] rank = "3" -> 3 [] rank = "4" -> 4
      [] rank = "5" -> 5 [] rank = "6" -> 6 [] rank = "7" -> 7
      [] rank = "8" -> 8 [] rank = "9" -> 9 [] rank = "10" -> 10

card_value(rank) ==
    IF rank \in {"J", "Q", "K"} THEN 10
    ELSE IF rank = "A" THEN 1
    ELSE IntOfRank(rank)

\* the loop of value_and_usable_ace over the first k cards of h:
\* `total += card_value(c)` and `aces += 1`
RECURSIVE SumValues(_, _)
SumValues(h, k) ==
    IF k = 0 THEN 0 ELSE SumValues(h, k - 1) + card_value(h[k])

RECURSIVE CountAces(_, _)
CountAces(h, k) ==
    IF k = 0 THEN 0 ELSE CountAces(h, k - 1) + (IF h[k] = "A" THEN 1 ELSE 0)

\* <<total, aces>> after the loop
SumCards(h) == <<SumValues(h, Len(h)), CountAces(h, Len(h))>>

\* value_and_usable_ace without `aces > 0`
value_and_usable_ace_NoAceTest(h) ==
    LET total == SumCards(h)[1]
    IN  IF total + 10 <= 21
        THEN <<total + 10, TRUE>>
        ELSE <<total, FALSE>>

value_and_usable_ace(h) ==
    LET total == SumCards(h)[1]
        aces  == SumCards(h)[2]
    IN  IF aces > 0 /\ total + 10 <= 21
        THEN <<total + 10, TRUE>>
        ELSE <<total, FALSE>>

Total(h) == value_and_usable_ace(h)[1]

UsableAce(h) == value_and_usable_ace(h)[2]

is_blackjack(h) == Len(h) = 2 /\ Total(h) = 21

is_bust(h) == Total(h) > 21

----------------------------------------------------------------------------
(* Deck *)

\* InfiniteDeck.draw is rng.choice(RANKS); the simulation runs draw from these
\* ranks of RANKS: an ace, a small card and a ten-valued card
DrawRanks == {"A", "6", "K"}

----------------------------------------------------------------------------
(* Policies *)

RandomPolicy == [name |-> "RandomPolicy", threshold |-> 0]

ThresholdPolicy(t) == [name |-> "ThresholdPolicy", threshold |-> t]

BasicStrategyPolicy == [name |-> "BasicStrategyPolicy", threshold |-> 0]

\* another object offering decide (Policy is a structural Protocol, nothing
\* restricts what an implementation returns): one that also answers "double"
CustomPolicy == [name |-> "CustomPolicy", threshold |-> 0]

Policies == {RandomPolicy, ThresholdPolicy(17), ThresholdPolicy(16),
             BasicStrategyPolicy, CustomPolicy}

RandomPolicy_decide(player_hand, upcard) == {"hit", "stand"}

ThresholdPolicy_decide(p, player_hand, upcard) ==
    IF Total(player_hand) < p.threshold THEN {"hit"} ELSE {"stand"}

\* BasicStrategyPolicy.decide taking card_value of the upcard as it is
BasicStrategyPolicy_decide_AceAsOne(player_hand, upcard) ==
    LET player_total == Total(player_hand)
        dealer_val   == card_value(upcard)
    IN  IF player_total >= 21 THEN {"stand"}
        ELSE IF UsableAce(player_hand)
        THEN IF player_total >= 19 THEN {"stand"}
             ELSE IF player_total = 18
             THEN (IF dealer_val \in {9, 10, 11} THEN {"hit"} ELSE {"stand"})
             ELSE {"hit"}
        ELSE IF player_total >= 17 THEN {"stand"}
        ELSE IF 13 <= player_total /\ player_total <= 16
        THEN (IF 2 <= dealer_val /\ dealer_val <= 6 THEN {"stand"} ELSE {"hit"})
        ELSE IF player_total = 12
        THEN (IF 4 <= dealer_val /\ dealer_val <= 6 THEN {"stand"} ELSE {"hit"})
        ELSE {"hit"}

BasicStrategyPolicy_decide(player_hand, upcard) ==
    LET player_total == Total(player_hand)
        dealer_val   == IF upcard = "A" THEN 11 ELSE card_value(upcard)
    IN  IF player_total >= 21 THEN {"stand"}
        ELSE IF UsableAce(player_hand)
        THEN IF player_total >= 19 THEN {"stand"}
             ELSE IF player_total = 18
             THEN (IF dealer_val \in {9, 10, 11} THEN {"hit"} ELSE {"stand"})
             ELSE {"hit"}
        ELSE IF player_total >= 17 THEN {"stand"}
        ELSE IF 13 <= player_total /\ player_total <= 16
        THEN (IF 2 <= dealer_val /\ dealer_val <= 6 THEN {"stand"} ELSE {"hit"})
        ELSE IF player_total = 12
        THEN (IF 4 <= dealer_val /\ dealer_val <= 6 THEN {"stand"} ELSE {"hit"})
        ELSE {"hit"}

CustomPolicy_decide(player_hand, upcard) == {"hit", "double"}

\* the values policy.decide(player_hand, upcard) can return
Decide(p, player_hand, upcard) ==
    CASE p.name = "RandomPolicy"        -> RandomPolicy_decide(player_hand, upcard)
      [] p.name = "ThresholdPolicy"     -> ThresholdPolicy_decide(p, player_hand, upcard)
      [] p.name = "BasicStrategyPolicy" -> BasicStrategyPolicy_decide(player_hand, upcard)
      [] p.name = "CustomPolicy"        -> CustomPolicy_decide(player_hand, upcard)

----------------------------------------------------------------------------
(* Rules and results *)

\* blackjack_payout in halves, bet in whole units
Rules(h17, payout, bet) ==
    [dealer_hits_soft_17 |-> h17, blackjack_payout |-> payout, bet |-> bet]

\* Rules() is (False, 1.5, 1.0); the dataclass accepts any numbers
RulesTried == {Rules(FALSE, 3, 1), Rules(TRUE, 3, 2),
               Rules(TRUE, 3, -1), Rules(FALSE, -1, 1)}

GameResult(outcome, profit, pt, dt, pbj, dbj, pbust, dbust) ==
    [outcome |-> outcome, profit |-> profit,
     player_total |-> pt, dealer_total |-> dt,
     player_blackjack |-> pbj, dealer_blackjack |-> dbj,
     player_bust |-> pbust, dealer_bust |-> dbust]

\* no GameResult / no Summary (None)
NoResult == [outcome |-> "none"]

NoSummary == [games |-> "none"]

\* generators not followed / nothing kept to compare with
NoGen == [deck |-> "any"]

NoCall == [drawn |-> "none"]

Frac(n, d) == [num |-> n, den |-> d]

Summary(games, w, l, p, total) ==
    [games |-> games, wins |-> w, losses |-> l, pushes |-> p,
     profit_total |-> total, profit_avg |-> Frac(total, games),
     win_rate |-> Frac(w, games), loss_rate |-> Frac(l, games),
     push_rate |-> Frac(p, games)]

\* _dealer_should_hit with `total < 16` for `total < 17`: a 16 stands
_dealer_should_hit_StandsOn16(dealer_hand, r) ==
    LET total      == value_and_usable_ace(dealer_hand)[1]
        usable_ace == value_and_usable_ace(dealer_hand)[2]
    IN  IF total < 16 THEN TRUE
        ELSE IF total > 17 \/ total = 16 THEN FALSE
        ELSE IF usable_ace /\ r.dealer_hits_soft_17 THEN TRUE
        ELSE FALSE

\* _dealer_should_hit without the usable_ace test: H17 hits every 17
_dealer_should_hit_Hard17(dealer_hand, r) ==
    LET total == value_and_usable_ace(dealer_hand)[1]
    IN  IF total < 17 THEN TRUE
        ELSE IF total > 17 THEN FALSE
        ELSE r.dealer_hits_soft_17

_dealer_should_hit(dealer_hand, r) ==
    LET total      == value_and_usable_ace(dealer_hand)[1]
        usable_ace == value_and_usable_ace(dealer_hand)[2]
    IN  IF total < 17 THEN TRUE
        ELSE IF total > 17 THEN FALSE
        ELSE IF usable_ace /\ r.dealer_hits_soft_17 THEN TRUE
        ELSE FALSE

----------------------------------------------------------------------------
(* BlackjackGame.play_round *)

\* profits, in halves: blackjack_payout * bet, -1.0 * bet, 1.0 * bet
BlackjackProfit(r) == r.blackjack_payout * r.bet

LossProfit(r) == -2 * r.bet

WinProfit(r) == 2 * r.bet

\* `if player_bj or dealer_bj:` block
BlackjackResolution(p, d, r) ==
    LET player_bj == is_blackjack(p)
        dealer_bj == is_blackjack(d)
    IN  IF player_bj /\ dealer_bj
        THEN GameResult("push", 0, Total(p), Total(d), TRUE, TRUE, FALSE, FALSE)
        ELSE IF player_bj /\ ~dealer_bj
        THEN GameResult("win", BlackjackProfit(r), Total(p), Total(d),
                        TRUE, FALSE, FALSE, FALSE)
        ELSE GameResult("loss", LossProfit(r), Total(p), Total(d),
                        FALSE, TRUE, FALSE, FALSE)

\* the return inside the player loop
PlayerBustResult(p, d, r) ==
    GameResult("loss", LossProfit(r), Total(p), Total(d), FALSE, FALSE, TRUE, FALSE)

\* DetermineOutcome with the comparison of totals as >=: a tie pays the player
DetermineOutcome_TieWins(p, d, r) ==
    LET player_bust == is_bust(p)
        dealer_bust == is_bust(d)
    IN  IF player_bust
        THEN GameResult("loss", LossProfit(r), Total(p), Total(d),
                        FALSE, FALSE, TRUE, dealer_bust)
        ELSE IF dealer_bust
        THEN GameResult("win", WinProfit(r), Total(p), Total(d),
                        FALSE, FALSE, FALSE, TRUE)
        ELSE IF Total(p) >= Total(d)
        THEN GameResult("win", WinProfit(r), Total(p), Total(d),
                        FALSE, FALSE, FALSE, FALSE)
        ELSE GameResult("loss", LossProfit(r), Total(p), Total(d),
                        FALSE, FALSE, FALSE, FALSE)

\* DetermineOutcome returning dealer_bust=False from the dealer-bust branch
DetermineOutcome_NoDealerBustFlag(p, d, r) ==
    LET player_bust == is_bust(p)
        dealer_bust == is_bust(d)
    IN  IF player_bust
        THEN GameResult("loss", LossProfit(r), Total(p), Total(d),
                        FALSE, FALSE, TRUE, dealer_bust)
        ELSE IF dealer_bust
        THEN GameResult("win", WinProfit(r), Total(p), Total(d),
                        FALSE, FALSE, FALSE, FALSE)
        ELSE IF Total(p) > Total(d)
        THEN GameResult("win", WinProfit(r), Total(p), Total(d),
                        FALSE, FALSE, FALSE, FALSE)
        ELSE IF Total(p) < Total(d)
        THEN GameResult("loss", LossProfit(r), Total(p), Total(d),
                        FALSE, FALSE, FALSE, FALSE)
        ELSE GameResult("push", 0, Total(p), Total(d),
                        FALSE, FALSE, FALSE, FALSE)

\* `# Determine outcome` to the end of play_round
DetermineOutcome(p, d, r) ==
    LET player_bust == is_bust(p)
        dealer_bust == is_bust(d)
    IN  IF player_bust
        THEN GameResult("loss", LossProfit(r), Total(p), Total(d),
                        FALSE, FALSE, TRUE, dealer_bust)
        ELSE IF dealer_bust
        THEN GameResult("win", WinProfit(r), Total(p), Total(d),
                        FALSE, FALSE, FALSE, TRUE)
        ELSE IF Total(p) > Total(d)
        THEN GameResult("win", WinProfit(r), Total(p), Total(d),
                        FALSE, FALSE, FALSE, FALSE)
        ELSE IF Total(p) < Total(d)
        THEN GameResult("loss", LossProfit(r), Total(p), Total(d),
                        FALSE, FALSE, FALSE, FALSE)
        ELSE GameResult("push", 0, Total(p), Total(d),
                        FALSE, FALSE, FALSE, FALSE)

\* Deal with dealer_upcard = dealer.cards[1], the hole card
Deal_HoleCardAsUpcard ==
    /\ pc = "loop"
    /\ i < n_games
    /\ \E c1, c2, c3, c4 \in DrawRanks :
          /\ player' = <<c1, c2>>
          /\ dealer' = <<c3, c4>>
          /\ dealer_upcard' = c4
    /\ draws' = 4
    /\ pc' = "dealt"
    /\ UNCHANGED <<policy, n_games, rules, i, wins, losses, pushes,
                   profit_total, action, decide_args, decides, res, summary,
                   error, pureVars>>

\* the next iteration of simulate's loop calls play_round: the initial deal
Deal ==
    /\ pc = "loop"
    /\ i < n_games
    /\ \E c1, c2, c3, c4 \in DrawRanks :
          /\ player' = <<c1, c2>>
          /\ dealer' = <<c3, c4>>
          /\ dealer_upcard' = c3
    /\ draws' = 4
    /\ pc' = "dealt"
    /\ UNCHANGED <<policy, n_games, rules, i, wins, losses, pushes,
                   profit_total, action, decide_args, decides, res, summary,
                   error, pureVars>>

\* a natural blackjack on either side: the round returns at once
SettleBlackjack ==
    /\ pc = "dealt"
    /\ is_blackjack(player) \/ is_blackjack(dealer)
    /\ res' = BlackjackResolution(player, dealer, rules)
    /\ pc' = "returned"
    /\ UNCHANGED <<policy, n_games, rules, i, wins, losses, pushes,
                   profit_total, player, dealer, dealer_upcard, action,
                   decide_args, draws, decides, summary, error, pureVars>>

\* EnterPlayerTurn when only the player's hand is tested for a blackjack
EnterPlayerTurn_PlayerOnly ==
    /\ pc = "dealt"
    /\ ~is_blackjack(player)
    /\ pc' = "player_turn"
    /\ UNCHANGED <<simVars, pureVars>>

\* no natural blackjack: enter `while True`
EnterPlayerTurn ==
    /\ pc = "dealt"
    /\ ~(is_blackjack(player) \/ is_blackjack(dealer))
    /\ pc' = "player_turn"
    /\ UNCHANGED <<simVars, pureVars>>

\* top of the player loop, `if player.is_bust(): return ...`
SettlePlayerBust ==
    /\ pc = "player_turn"
    /\ is_bust(player)
    /\ res' = PlayerBustResult(player, dealer, rules)
    /\ pc' = "returned"
    /\ UNCHANGED <<policy, n_games, rules, i, wins, losses, pushes,
                   profit_total, player, dealer, dealer_upcard, action,
                   decide_args, draws, decides, summary, error, pureVars>>

\* AskPolicy without the bust test at the top of the loop
AskPolicy_NoBustCheck ==
    /\ pc = "player_turn"
    /\ action' \in Decide(policy, player, dealer_upcard)
    /\ decide_args' = <<player, dealer_upcard>>
    /\ decides' = decides + 1
    /\ pc' = "decided"
    /\ UNCHANGED <<policy, n_games, rules, i, wins, losses, pushes,
                   profit_total, player, dealer, dealer_upcard, draws, res,
                   summary, error, pureVars>>

\* AskPolicy handing the policy the dealer's second card
AskPolicy_PassesHoleCard ==
    /\ pc = "player_turn"
    /\ ~is_bust(player)
    /\ action' \in Decide(policy, player, dealer[2])
    /\ decide_args' = <<player, dealer[2]>>
    /\ decides' = decides + 1
    /\ pc' = "decided"
    /\ UNCHANGED <<policy, n_games, rules, i, wins, losses, pushes,
                   profit_total, player, dealer, dealer_upcard, draws, res,
                   summary, error, pureVars>>

\* `action = policy.decide(player, dealer_upcard)`
AskPolicy ==
    /\ pc = "player_turn"
    /\ ~is_bust(player)
    /\ action' \in Decide(policy, player, dealer_upcard)
    /\ decide_args' = <<player, dealer_upcard>>
    /\ decides' = decides + 1
    /\ pc' = "decided"
    /\ UNCHANGED <<policy, n_games, rules, i, wins, losses, pushes,
                   profit_total, player, dealer, dealer_upcard, draws, res,
                   summary, error, pureVars>>

\* `if action not in ("hit", "stand"): raise ValueError`; nothing in play_round
\* or simulate catches it
RaiseInvalidAction ==
    /\ pc = "decided"
    /\ action \notin {"hit", "stand"}
    /\ error' = "ValueError"
    /\ pc' = "raised"
    /\ UNCHANGED <<policy, n_games, rules, i, wins, losses, pushes,
                   profit_total, player, dealer, dealer_upcard, action,
                   decide_args, draws, decides, res, summary, pureVars>>

\* Stand taken for every answer other than "hit"
Stand_AnythingButHit ==
    /\ pc = "decided"
    /\ action # "hit"
    /\ pc' = "dealer_turn"
    /\ UNCHANGED <<simVars, pureVars>>

\* `if action == "stand": break`
Stand ==
    /\ pc = "decided"
    /\ action = "stand"
    /\ pc' = "dealer_turn"
    /\ UNCHANGED <<simVars, pureVars>>

\* `player.add(self.deck.draw())`
Hit ==
    /\ pc = "decided"
    /\ action = "hit"
    /\ Len(player) < cap
    /\ \E c \in DrawRanks : player' = Append(player, c)
    /\ draws' = draws + 1
    /\ pc' = "player_turn"
    /\ UNCHANGED <<policy, n_games, rules, i, wins, losses, pushes,
                   profit_total, dealer, dealer_upcard, action, decide_args,
                   decides, res, summary, error, pureVars>>

\* `while self._dealer_should_hit(dealer): dealer.add(self.deck.draw())`
DealerHit ==
    /\ pc = "dealer_turn"
    /\ _dealer_should_hit(dealer, rules)
    /\ Len(dealer) < cap
    /\ \E c \in DrawRanks : dealer' = Append(dealer, c)
    /\ draws' = draws + 1
    /\ UNCHANGED <<pc, policy, n_games, rules, i, wins, losses, pushes,
                   profit_total, player, dealer_upcard, action, decide_args,
                   decides, res, summary, error, pureVars>>

\* the dealer stands: settle
Settle ==
    /\ pc = "dealer_turn"
    /\ ~_dealer_should_hit(dealer, rules)
    /\ res' = DetermineOutcome(player, dealer, rules)
    /\ pc' = "returned"
    /\ UNCHANGED <<policy, n_games, rules, i, wins, losses, pushes,
                   profit_total, player, dealer, dealer_upcard, action,
                   decide_args, draws, decides, summary, error, pureVars>>

----------------------------------------------------------------------------
(* simulate *)

\* Fold with `profit_total = res.profit` for `profit_total += res.profit`
Fold_OverwritesProfit ==
    /\ pc = "returned"
    /\ profit_total' = res.profit
    /\ wins'   = IF res.outcome = "win" THEN wins + 1 ELSE wins
    /\ losses' = IF res.outcome = "win" THEN losses
                 ELSE IF res.outcome = "loss" THEN losses + 1 ELSE losses
    /\ pushes' = IF res.outcome \in {"win", "loss"} THEN pushes ELSE pushes + 1
    /\ i' = i + 1
    /\ pc' = "loop"
    /\ player' = <<>> /\ dealer' = <<>> /\ dealer_upcard' = "none"
    /\ action' = "none" /\ decide_args' = <<>>
    /\ draws' = 0 /\ decides' = 0
    /\ res' = NoResult
    /\ UNCHANGED <<policy, n_games, rules, summary, error, pureVars>>

\* Fold stepping the loop index by two
Fold_SkipsARound ==
    /\ pc = "returned"
    /\ profit_total' = profit_total + res.profit
    /\ wins'   = IF res.outcome = "win" THEN wins + 1 ELSE wins
    /\ losses' = IF res.outcome = "win" THEN losses
                 ELSE IF res.outcome = "loss" THEN losses + 1 ELSE losses
    /\ pushes' = IF res.outcome \in {"win", "loss"} THEN pushes ELSE pushes + 1
    /\ i' = i + 2
    /\ pc' = "loop"
    /\ player' = <<>> /\ dealer' = <<>> /\ dealer_upcard' = "none"
    /\ action' = "none" /\ decide_args' = <<>>
    /\ draws' = 0 /\ decides' = 0
    /\ res' = NoResult
    /\ UNCHANGED <<policy, n_games, rules, summary, error, pureVars>>

\* the body of the loop after play_round returned
Fold ==
    /\ pc = "returned"
    /\ profit_total' = profit_total + res.profit
    /\ wins'   = IF res.outcome = "win" THEN wins + 1 ELSE wins
    /\ losses' = IF res.outcome = "win" THEN losses
                 ELSE IF res.outcome = "loss" THEN losses + 1 ELSE losses
    /\ pushes' = IF res.outcome \in {"win", "loss"} THEN pushes ELSE pushes + 1
    /\ i' = i + 1
    /\ pc' = "loop"
    \* the locals of the play_round call that returned are gone
    /\ player' = <<>> /\ dealer' = <<>> /\ dealer_upcard' = "none"
    /\ action' = "none" /\ decide_args' = <<>>
    /\ draws' = 0 /\ decides' = 0
    \* res is folded and not read again before the next call assigns it
    /\ res' = NoResult
    /\ UNCHANGED <<policy, n_games, rules, summary, error, pureVars>>

\* range(n_games) is exhausted (at once when n_games <= 0); games = n_games and
\* the quotients: n_games = 0 divides by zero
RaiseZeroDivision ==
    /\ pc = "loop"
    /\ i >= n_games
    /\ n_games = 0
    /\ error' = "ZeroDivisionError"
    /\ pc' = "raised"
    /\ UNCHANGED <<policy, n_games, rules, i, wins, losses, pushes,
                   profit_total, player, dealer, dealer_upcard, action,
                   decide_args, draws, decides, res, summary, pureVars>>

ReturnSummary ==
    /\ pc = "loop"
    /\ i >= n_games
    /\ n_games # 0
    /\ summary' = Summary(n_games, wins, losses, pushes, profit_total)
    /\ pc' = "done"
    /\ UNCHANGED <<policy, n_games, rules, i, wins, losses, pushes,
                   profit_total, player, dealer, dealer_upcard, action,
                   decide_args, draws, decides, res, error, pureVars>>

\* simulate(policy, n_games, seed, rules) up to the loop
Init ==
    /\ pc = "loop"
    /\ policy \in Policies
    /\ n_games \in -1..MaxGames
    /\ rules \in RulesTried
    /\ i = 0
    /\ wins = 0 /\ losses = 0 /\ pushes = 0
    /\ profit_total = 0
    /\ player = <<>> /\ dealer = <<>> /\ dealer_upcard = "none"
    /\ action = "none" /\ decide_args = <<>>
    /\ draws = 0 /\ decides = 0
    /\ res = NoResult
    /\ summary = NoSummary
    /\ error = "none"
    /\ gen = NoGen /\ trail = <<>> /\ first = NoCall
    /\ seed = "any" /\ cap = MaxHand
    /\ hand = <<>> /\ out = <<>>

\* the seed is left open: every draw and every random answer is possible, and
\* the generators are not followed
Next ==
    \/ Deal /\ UNCHANGED genVars
    \/ SettleBlackjack /\ UNCHANGED genVars
    \/ EnterPlayerTurn /\ UNCHANGED genVars
    \/ SettlePlayerBust /\ UNCHANGED genVars
    \/ AskPolicy /\ UNCHANGED genVars
    \/ RaiseInvalidAction /\ UNCHANGED genVars
    \/ Stand /\ UNCHANGED genVars
    \/ Hit /\ UNCHANGED genVars
    \/ DealerHit /\ UNCHANGED genVars
    \/ Settle /\ UNCHANGED genVars
    \/ Fold /\ UNCHANGED genVars
    \/ RaiseZeroDivision /\ UNCHANGED genVars
    \/ ReturnSummary /\ UNCHANGED genVars

Spec == Init /\ [][Next]_vars

----------------------------------------------------------------------------
(* Seeded runs: simulate(policy, n_games, seed, rules) with the generators   *)
(* followed.  random.Random is a deterministic generator: its state after    *)
(* seeding depends on the seed only, and each choice() advances the state    *)
(* and returns the element the new state selects.  A small linear            *)
(* congruential generator stands for it.                                     *)

\* random.Random(s)
SeedState(s) == s % 256

\* one step of the generator
RngNext(x) == (13 * x + 7) % 256

\* the index choice() takes out of n elements in state x
RngIndex(x, n) == (x \div 16) % n

\* the ranks deck.draw() chooses from, in the order of RANKS
DrawSeq == <<"A", "6", "K">>

\* k calls of deck.draw() from generator state x: <<cards, state after>>
RECURSIVE DrawN(_, _)
DrawN(x, k) ==
    IF k = 0 THEN <<<<>>, x>>
    ELSE LET r == DrawN(x, k - 1)
             y == RngNext(r[2])
         IN  <<Append(r[1], DrawSeq[RngIndex(y, Len(DrawSeq)) + 1]), y>>

\* StartGen when the generator is created once for the process and a later
\* call goes on with it
StartGen_SharedGenerator(sd) ==
    [deck   |-> IF pc = "loop" THEN SeedState(sd.deck) ELSE gen.deck,
     policy |-> SeedState(sd.policy), drawn |-> <<>>]

\* the generators of a call: rng = random.Random(seed) handed to the deck,
\* and the policy's own rng, nothing drawn yet
StartGen(sd) ==
    [deck |-> SeedState(sd.deck), policy |-> SeedState(sd.policy), drawn |-> <<>>]

\* NewCards when the deal alternates between the two hands
NewCards_Alternating ==
    IF pc = "loop" THEN <<player'[1], dealer'[1], player'[2], dealer'[2]>>
    ELSE IF pc = "decided" THEN <<player'[Len(player')]>>
    ELSE <<dealer'[Len(dealer')]>>

\* the cards a step has drawn, in the order of its deck.draw() calls: the
\* deal fills the player's hand first, a hit appends one card
NewCards ==
    IF pc = "loop" THEN player' \o dealer'
    ELSE IF pc = "decided" THEN <<player'[Len(player')]>>
    ELSE <<dealer'[Len(dealer')]>>

\* DeckDraws when every round seeds the generator anew
DeckDraws_ReseedsEachRound ==
    LET new == NewCards
        r   == DrawN(IF pc = "loop" THEN SeedState(seed.deck) ELSE gen.deck,
                     Len(new))
    IN  /\ new = r[1]
        /\ gen' = [gen EXCEPT !.deck = r[2], !.drawn = @ \o new]

\* every card a step draws comes from the one generator of the call
DeckDraws ==
    LET new == NewCards
        r   == DrawN(gen.deck, Len(new))
    IN  /\ new = r[1]
        /\ gen' = [gen EXCEPT !.deck = r[2], !.drawn = @ \o new]

\* the list a randomized policy hands to self.rng.choice
PolicyAnswers(p) ==
    IF p.name = "RandomPolicy" THEN <<"hit", "stand">> ELSE <<"hit", "double">>

\* PolicyDraws when every policy steps a generator of its own on each call
PolicyDraws_EveryPolicy ==
    LET y == RngNext(gen.policy)
    IN  /\ policy.name \in {"RandomPolicy", "CustomPolicy"} =>
               action' = PolicyAnswers(policy)[RngIndex(y, 2) + 1]
        /\ gen' = [gen EXCEPT !.policy = y]

\* decide of a randomized policy consults the policy's generator; the other
\* policies hold none
PolicyDraws ==
    IF policy.name \in {"RandomPolicy", "CustomPolicy"}
    THEN LET y == RngNext(gen.policy)
         IN  /\ action' = PolicyAnswers(policy)[RngIndex(y, 2) + 1]
             /\ gen' = [gen EXCEPT !.policy = y]
    ELSE UNCHANGED gen

\* the position of a call, as kept in trail
Position ==
    [pc |-> pc, i |-> i, player |-> player, dealer |-> dealer,
     upcard |-> dealer_upcard, args |-> decide_args, action |-> action,
     draws |-> draws, res |-> res, summary |-> summary, error |-> error]

Track == trail' = Append(trail, Position')

\* the call is over; simulate is called again with the same arguments and a
\* policy that answers as the first one did (its generator seeded alike)
SecondCall ==
    /\ pc \in {"done", "raised"}
    /\ first = NoCall
    /\ first' = [drawn |-> gen.drawn, trail |-> trail, summary |-> summary,
                 error |-> error]
    /\ pc' = "loop"
    /\ i' = 0
    /\ wins' = 0 /\ losses' = 0 /\ pushes' = 0
    /\ profit_total' = 0
    /\ player' = <<>> /\ dealer' = <<>> /\ dealer_upcard' = "none"
    /\ action' = "none" /\ decide_args' = <<>>
    /\ draws' = 0 /\ decides' = 0
    /\ res' = NoResult
    /\ summary' = NoSummary
    /\ error' = "none"
    /\ gen' = StartGen(seed)
    /\ trail' = <<>>
    /\ UNCHANGED <<policy, n_games, rules, pureVars>>

InitSeeded ==
    /\ pc = "loop"
    /\ policy \in Policies
    /\ n_games \in -1..MaxGames
    /\ rules \in RulesTried
    /\ seed \in [deck : 0..MaxSeed, policy : 1..MaxPolicySeed]
    /\ gen = StartGen(seed)
    /\ i = 0
    /\ wins = 0 /\ losses = 0 /\ pushes = 0
    /\ profit_total = 0
    /\ player = <<>> /\ dealer = <<>> /\ dealer_upcard = "none"
    /\ action = "none" /\ decide_args = <<>>
    /\ draws = 0 /\ decides = 0
    /\ res = NoResult
    /\ summary = NoSummary
    /\ error = "none"
    /\ trail = <<>> /\ first = NoCall
    /\ cap = MaxHand
    /\ hand = <<>> /\ out = <<>>

NextSeeded ==
    \/ Deal /\ DeckDraws /\ Track /\ UNCHANGED first
    \/ SettleBlackjack /\ Track /\ UNCHANGED <<gen, first>>
    \/ EnterPlayerTurn /\ Track /\ UNCHANGED <<gen, first>>
    \/ SettlePlayerBust /\ Track /\ UNCHANGED <<gen, first>>
    \/ AskPolicy /\ PolicyDraws /\ Track /\ UNCHANGED first
    \/ RaiseInvalidAction /\ Track /\ UNCHANGED <<gen, first>>
    \/ Stand /\ Track /\ UNCHANGED <<gen, first>>
    \/ Hit /\ DeckDraws /\ Track /\ UNCHANGED first
    \/ DealerHit /\ DeckDraws /\ Track /\ UNCHANGED first
    \/ Settle /\ Track /\ UNCHANGED <<gen, first>>
    \/ Fold /\ Track /\ UNCHANGED <<gen, first>>
    \/ RaiseZeroDivision /\ Track /\ UNCHANGED <<gen, first>>
    \/ ReturnSummary /\ Track /\ UNCHANGED <<gen, first>>
    \/ SecondCall

SpecSeeded == InitSeeded /\ [][NextSeeded]_vars

----------------------------------------------------------------------------
(* Runs that have to end by themselves: hands may grow to MaxCards cards, the
   policy answers hit or stand, and a step that can be taken is taken *)

\* the ranks these runs draw: the lowest and the highest base value
TermRanks == {"A", "K"}

\* every card a step adds to a hand is one of TermRanks
TermCards ==
    /\ \A k \in (Len(player) + 1)..Len(player') : player'[k] \in TermRanks
    /\ \A k \in (Len(dealer) + 1)..Len(dealer') : dealer'[k] \in TermRanks

InitTerm ==
    /\ pc = "loop"
    /\ policy \in {RandomPolicy, ThresholdPolicy(17)}
    /\ n_games \in 1..MaxGames
    /\ rules \in {Rules(h17, 2, 1) : h17 \in BOOLEAN}
    /\ i = 0
    /\ wins = 0 /\ losses = 0 /\ pushes = 0
    /\ profit_total = 0
    /\ player = <<>> /\ dealer = <<>> /\ dealer_upcard = "none"
    /\ action = "none" /\ decide_args = <<>>
    /\ draws = 0 /\ decides = 0
    /\ res = NoResult
    /\ summary = NoSummary
    /\ error = "none"
    /\ gen = NoGen /\ trail = <<>> /\ first = NoCall
    /\ seed = "any" /\ cap = MaxCards
    /\ hand = <<>> /\ out = <<>>

NextTerm ==
    \/ Deal /\ TermCards /\ UNCHANGED genVars
    \/ SettleBlackjack /\ UNCHANGED genVars
    \/ EnterPlayerTurn /\ UNCHANGED genVars
    \/ SettlePlayerBust /\ UNCHANGED genVars
    \/ AskPolicy /\ UNCHANGED genVars
    \/ Stand /\ UNCHANGED genVars
    \/ Hit /\ TermCards /\ UNCHANGED genVars
    \/ DealerHit /\ TermCards /\ UNCHANGED genVars
    \/ Settle /\ UNCHANGED genVars
    \/ Fold /\ UNCHANGED genVars
    \/ ReturnSummary /\ UNCHANGED genVars

\* the interpreter runs the one thread of the call on
SpecTerm == InitTerm /\ [][NextTerm]_vars /\ WF_vars(NextTerm)

----------------------------------------------------------------------------
(* Rounds that differ in the dealer's second card: the first round of a call
   is kept, and every later round is dealt the same player cards and the same
   upcard but another second dealer card, and draws for the player what the
   first round drew for the player *)

\* the policies whose decide is a function of its arguments
DeterministicPolicies == {ThresholdPolicy(17), ThresholdPolicy(16),
                          BasicStrategyPolicy}

\* the decide calls among the positions t: arguments and answer of each
RECURSIVE CallsOf(_)
CallsOf(t) ==
    IF t = <<>> THEN <<>>
    ELSE LET e == t[Len(t)]
             r == CallsOf(SubSeq(t, 1, Len(t) - 1))
         IN  IF e.pc = "decided"
             THEN Append(r, [args |-> e.args, action |-> e.action])
             ELSE r

\* the deal of a later round
SameButHoleCard ==
    first # NoCall =>
        /\ player' = SubSeq(first.player, 1, 2)
        /\ dealer'[1] = first.dealer[1]
        /\ dealer'[2] # first.dealer[2]

\* a player draw of a later round
SamePlayerDraw ==
    (first # NoCall /\ Len(player) < Len(first.player)) =>
        player'[Len(player')] = first.player[Len(player')]

\* the first round is kept when it is folded; trail starts over
KeepRound ==
    /\ first' = IF first = NoCall
                THEN [player |-> player, dealer |-> dealer,
                      calls |-> CallsOf(trail)]
                ELSE first
    /\ trail' = <<>>

InitHole ==
    /\ pc = "loop"
    /\ policy \in DeterministicPolicies
    /\ n_games \in 1..MaxGames
    /\ rules \in RulesTried
    /\ i = 0
    /\ wins = 0 /\ losses = 0 /\ pushes = 0
    /\ profit_total = 0
    /\ player = <<>> /\ dealer = <<>> /\ dealer_upcard = "none"
    /\ action = "none" /\ decide_args = <<>>
    /\ draws = 0 /\ decides = 0
    /\ res = NoResult
    /\ summary = NoSummary
    /\ error = "none"
    /\ gen = NoGen /\ trail = <<>> /\ first = NoCall
    /\ seed = "any" /\ cap = MaxHand
    /\ hand = <<>> /\ out = <<>>

NextHole ==
    \/ Deal /\ SameButHoleCard /\ Track /\ UNCHANGED <<gen, first>>
    \/ SettleBlackjack /\ Track /\ UNCHANGED <<gen, first>>
    \/ EnterPlayerTurn /\ Track /\ UNCHANGED <<gen, first>>
    \/ SettlePlayerBust /\ Track /\ UNCHANGED <<gen, first>>
    \/ AskPolicy /\ Track /\ UNCHANGED <<gen, first>>
    \/ Stand /\ Track /\ UNCHANGED <<gen, first>>
    \/ Hit /\ SamePlayerDraw /\ Track /\ UNCHANGED <<gen, first>>
    \/ DealerHit /\ Track /\ UNCHANGED <<gen, first>>
    \/ Settle /\ Track /\ UNCHANGED <<gen, first>>
    \/ Fold /\ KeepRound /\ UNCHANGED gen
    \/ ReturnSummary /\ Track /\ UNCHANGED <<gen, first>>

SpecHole == InitHole /\ [][NextHole]_vars

----------------------------------------------------------------------------
(* Valuation runs: a hand is built, then one of the pure functions of Hand   *)
(* and BlackjackGame is applied to it.                                       *)

\* all hands of at most n cards
RECURSIVE HandsUpTo(_)
HandsUpTo(n) ==
    IF n = 0 THEN {<<>>}
    ELSE LET shorter == HandsUpTo(n - 1)
         IN  shorter \cup {Append(h, c) : h \in shorter, c \in RankSet}

InitHands ==
    /\ pc = "hand"
    /\ hand \in HandsUpTo(MaxLen)
    /\ rules \in {Rules(h17, 3, 1) : h17 \in BOOLEAN}
    /\ out = <<>>
    /\ policy = BasicStrategyPolicy
    /\ n_games = 0
    /\ i = 0
    /\ wins = 0 /\ losses = 0 /\ pushes = 0
    /\ profit_total = 0
    /\ player = <<>> /\ dealer = <<>> /\ dealer_upcard = "none"
    /\ action = "none" /\ decide_args = <<>>
    /\ draws = 0 /\ decides = 0
    /\ res = NoResult
    /\ summary = NoSummary
    /\ error = "none"
    /\ gen = NoGen /\ trail = <<>> /\ first = NoCall
    /\ seed = "any" /\ cap = MaxHand

\* hand.value_and_usable_ace()
ValueHand ==
    /\ pc = "hand"
    /\ out' = value_and_usable_ace(hand)
    /\ pc' = "valued"
    /\ UNCHANGED <<simVars, genVars, seed, cap, hand>>

\* game._dealer_should_hit(hand)
AskDealerShouldHit ==
    /\ pc = "hand"
    /\ out' = _dealer_should_hit(hand, rules)
    /\ pc' = "dealer_asked"
    /\ UNCHANGED <<simVars, genVars, seed, cap, hand>>

\* BasicStrategyPolicy().decide(hand, dealer_upcard)
AskBasicStrategy ==
    /\ pc = "hand"
    /\ \E up \in RankSet :
          out' = [upcard |-> up, answer |-> BasicStrategyPolicy_decide(hand, up)]
    /\ pc' = "policy_asked"
    /\ UNCHANGED <<simVars, genVars, seed, cap, hand>>

NextHands ==
    \/ ValueHand
    \/ AskDealerShouldHit
    \/ AskBasicStrategy

SpecHands == InitHands /\ [][NextHands]_vars

----------------------------------------------------------------------------
(* Properties *)

InRound == pc \in {"dealt", "player_turn", "decided", "dealer_turn", "returned"}

\* the two cards a hand was dealt
Initial(h) == SubSeq(h, 1, 2)

\* C1: wins + losses + pushes equals the number of rounds folded so far, and
\* when simulate returns the three counters add up to n_games and
\* Summary.games is n_games.
C1_CountersAddUp ==
    /\ wins + losses + pushes = i
    /\ pc = "done" =>
          /\ wins + losses + pushes = n_games
          /\ summary.games = n_games
          /\ summary.wins + summary.losses + summary.pushes = n_games

\* the settlement table of the claim C2: <<outcome, profit in halves>>
SettlementTable(p, d, r) ==
    LET pbj == Len(p) = 2 /\ Total(p) = 21
        dbj == Len(d) = 2 /\ Total(d) = 21
    IN  CASE pbj /\ dbj                -> <<"push", 0>>
          [] pbj /\ ~dbj               -> <<"win", r.blackjack_payout * r.bet>>
          [] ~pbj /\ dbj               -> <<"loss", -2 * r.bet>>
          [] ~pbj /\ ~dbj /\ Total(p) > 21 -> <<"loss", -2 * r.bet>>
          [] ~pbj /\ ~dbj /\ Total(p) <= 21 /\ Total(d) > 21 -> <<"win", 2 * r.bet>>
          [] OTHER -> IF Total(p) > Total(d) THEN <<"win", 2 * r.bet>>
                      ELSE IF Total(p) < Total(d) THEN <<"loss", -2 * r.bet>>
                      ELSE <<"push", 0>>

\* C2: every round that returns gives an outcome among win, loss and push,
\* and outcome and profit are those of the settlement table for the two
\* final hands.
C2_SettlementMatchesTable ==
    pc = "returned" =>
        /\ res.outcome \in {"win", "loss", "push"}
        /\ <<res.outcome, res.profit>> = SettlementTable(player, dealer, rules)

C2_Witness ==
    /\ pc = "returned"
    /\ Total(dealer) > 21
    /\ Total(player) <= 21
    /\ res.outcome = "win"

\* C3: in a round whose deal gave a natural blackjack to either side, the
\* round is either just dealt or already returned, exactly four cards were
\* drawn, the policy was never asked and both hands hold two cards.
C3_BlackjackShortCircuit ==
    (InRound /\ (is_blackjack(Initial(player)) \/ is_blackjack(Initial(dealer)))) =>
        /\ pc \in {"dealt", "returned"}
        /\ draws = 4
        /\ decides = 0
        /\ action = "none"
        /\ Len(player) = 2
        /\ Len(dealer) = 2

C3_Witness ==
    /\ pc = "returned"
    /\ is_blackjack(dealer)
    /\ ~is_blackjack(player)
    /\ draws = 4
    /\ res.outcome = "loss"

\* C4: a round that returns with the player over 21 is a loss of the bet with
\* the dealer still on two cards; the dealer's turn, and any third dealer
\* card, come only after the player stood on at most 21; a bust player hand
\* exists only at the top of the player loop or in the returned round.
C4_PlayerBustIsTerminal ==
    /\ (pc = "returned" /\ Total(player) > 21) =>
          /\ res.outcome = "loss"
          /\ res.profit = -2 * rules.bet
          /\ Len(dealer) = 2
    /\ (pc = "dealer_turn" \/ Len(dealer) > 2) =>
          /\ pc \in {"dealer_turn", "returned"}
          /\ action = "stand"
          /\ Total(player) <= 21
    /\ (InRound /\ Total(player) > 21) => pc \in {"player_turn", "returned"}

C4_Witness ==
    /\ pc = "returned"
    /\ Total(player) > 21
    /\ Len(dealer) = 2
    /\ res.outcome = "loss"

\* the claim C5's rule for the dealer
DealerRule(total, usable, h17) == total < 17 \/ (total = 17 /\ usable /\ h17)

\* C5: _dealer_should_hit answers total < 17, or total = 17 on a usable
\* ace under dealer_hits_soft_17; so 16 hits and 18 stands whatever the flag,
\* a soft 17 follows the flag and a hard 17 stands.
C5_DealerShouldHit ==
    pc = "dealer_asked" =>
        LET t == Total(hand)
            u == UsableAce(hand)
        IN  /\ out = DealerRule(t, u, rules.dealer_hits_soft_17)
            /\ t = 16 => out = TRUE
            /\ t = 18 => out = FALSE
            /\ (t = 17 /\ u) => out = rules.dealer_hits_soft_17
            /\ (t = 17 /\ ~u) => out = FALSE

C5_Witness ==
    /\ pc = "dealer_asked"
    /\ Total(hand) = 17
    /\ ~UsableAce(hand)
    /\ rules.dealer_hits_soft_17
    /\ out = FALSE

\* C6: when the policy's answer is neither hit nor stand, the next step
\* raises ValueError out of simulate with hands, draw count, counters, result
\* and summary untouched; while such an answer stands there is no GameResult
\* and no Summary; and nothing happens after the error.
C6_InvalidActionAborts ==
    [][ /\ (pc = "decided" /\ action \notin {"hit", "stand"}) =>
              /\ pc' = "raised"
              /\ error' = "ValueError"
              /\ UNCHANGED <<player, dealer, draws, decides, action, res,
                             summary, i, wins, losses, pushes, profit_total>>
        /\ pc = "raised" => UNCHANGED vars
        /\ (action' \notin {"none", "hit", "stand"}) =>
              /\ pc' \in {"decided", "raised"}
              /\ player' = decide_args'[1]
              /\ res' = NoResult
              /\ summary' = NoSummary
      ]_vars

C6_Witness ==
    /\ pc = "raised"
    /\ error = "ValueError"
    /\ i = 1
    /\ Len(player) = 3
    /\ draws = 5
    /\ res = NoResult
    /\ summary = NoSummary

\* C7: with n_games < 1 simulate draws no card, plays no round and returns
\* no Summary; no Summary has games < 1.
C7_RejectsNonPositiveGames ==
    /\ n_games < 1 =>
          /\ pc \in {"loop", "raised"}
          /\ draws = 0
          /\ summary = NoSummary
    /\ summary # NoSummary => summary.games >= 1

\* C8: under Rules with a negative bet or a negative blackjack_payout no
\* round is played and neither a GameResult nor a Summary is produced (stated
\* for the runs asked to play at least one round).
C8_RejectsNegativeRules ==
    (n_games >= 1 /\ (rules.bet < 0 \/ rules.blackjack_payout < 0)) =>
        /\ pc \in {"loop", "raised"}
        /\ i = 0
        /\ draws = 0
        /\ res = NoResult
        /\ summary = NoSummary

\* C9: the hand given to the last policy.decide call totals at most 21 and
\* is no natural blackjack, the dealer's deal is no natural blackjack, the
\* upcard given is the dealer's first card, and the hand is the player's hand
\* as it stood at the call.
C9_PolicyPrecondition ==
    (InRound /\ decides > 0) =>
        /\ Len(decide_args) = 2
        /\ Total(decide_args[1]) <= 21
        /\ ~is_blackjack(decide_args[1])
        /\ ~is_blackjack(Initial(dealer))
        /\ decide_args[2] = dealer[1]
        /\ pc = "decided" => decide_args[1] = player

C9_Witness ==
    /\ pc = "decided"
    /\ decides = 2
    /\ Total(player) = 21
    /\ dealer[1] # dealer[2]
    /\ decide_args = <<player, dealer[1]>>

\* base values as the claim C10 lists them
BaseValue(rank) ==
    IF rank = "A" THEN 1
    ELSE IF rank \in {"10", "J", "Q", "K"} THEN 10
    ELSE CHOOSE v \in 2..9 : RANKS[v] = rank

RECURSIVE BaseSum(_)
BaseSum(h) == IF h = <<>> THEN 0 ELSE BaseValue(Head(h)) + BaseSum(Tail(h))

HasAce(h) == \E k \in 1..Len(h) : h[k] = "A"

\* C10: value_and_usable_ace gives (s + 10, true) when the hand has an ace and
\* s + 10 <= 21, else (s, false), s being the sum of the base values; the
\* total is never negative, exceeds s by 0 or 10, and a usable ace means a
\* total of at most 21.
C10_HandValuation ==
    (pc = "valued" /\ hand # <<>>) =>
        LET s == BaseSum(hand)
        IN  /\ out = IF HasAce(hand) /\ s + 10 <= 21
                     THEN <<s + 10, TRUE>> ELSE <<s, FALSE>>
            /\ out[1] >= 0
            /\ out[1] - s \in {0, 10}
            /\ out[2] => out[1] <= 21

C10_Witness ==
    /\ pc = "valued"
    /\ Len(hand) = 3
    /\ Cardinality({k \in 1..Len(hand) : hand[k] = "A"}) = 2
    /\ out = <<21, TRUE>>

----------------------------------------------------------------------------
(* Properties of the seeded runs *)

IsPrefix(a, b) == Len(a) <= Len(b) /\ a = SubSeq(b, 1, Len(a))

\* the state of random.Random(s) after k choices, and the k-th rank it gives
RECURSIVE StateAfter(_, _)
StateAfter(s, k) == IF k = 0 THEN SeedState(s) ELSE RngNext(StateAfter(s, k - 1))

StreamAt(s, k) == DrawSeq[RngIndex(StateAfter(s, k), Len(DrawSeq)) + 1]

\* the GameResults the call has got back so far, in order
RECURSIVE ResultsOf(_)
ResultsOf(t) ==
    IF t = <<>> THEN <<>>
    ELSE LET e == t[Len(t)]
             r == ResultsOf(SubSeq(t, 1, Len(t) - 1))
         IN  IF e.pc = "returned" THEN Append(r, e) ELSE r

RECURSIVE SumDraws(_)
SumDraws(t) == IF t = <<>> THEN 0 ELSE t[1].draws + SumDraws(Tail(t))

RECURSIVE SumProfit(_)
SumProfit(t) == IF t = <<>> THEN 0 ELSE t[1].res.profit + SumProfit(Tail(t))

\* C11: a second call of simulate with the same policy answers, n_games,
\* seed and rules draws the cards the first call drew and passes through the
\* positions the first call passed through, at every moment; when it ends it
\* has drawn the same card sequence, gone the same way and returned the same
\* Summary (or raised the same error).
C11_Determinism ==
    first # NoCall =>
        /\ IsPrefix(gen.drawn, first.drawn)
        /\ IsPrefix(trail, first.trail)
        /\ pc \in {"done", "raised"} =>
              /\ gen.drawn = first.drawn
              /\ trail = first.trail
              /\ summary = first.summary
              /\ error = first.error

C11_Witness ==
    /\ first # NoCall
    /\ pc = "done"
    /\ n_games = 2
    /\ policy = RandomPolicy
    /\ Len(gen.drawn) >= 10
    /\ summary = first.summary

\* C12: the k-th card drawn in the call is the k-th rank of the stream of
\* the seed, the generator stands where that many choices leave it, and the
\* number of cards drawn is the sum of the draws of the rounds played plus
\* those of the round in play: rounds continue the stream.
C12_StreamContinuation ==
    /\ \A k \in 1..Len(gen.drawn) : gen.drawn[k] = StreamAt(seed.deck, k)
    /\ gen.deck = StateAfter(seed.deck, Len(gen.drawn))
    /\ Len(gen.drawn) =
          SumDraws(ResultsOf(trail))
          + (IF pc \in {"dealt", "player_turn", "decided", "dealer_turn"}
                \/ (pc = "raised" /\ error = "ValueError")
             THEN draws ELSE 0)

C12_Witness ==
    /\ pc = "dealt"
    /\ i = 1
    /\ Len(gen.drawn) = 10
    /\ gen.drawn[7] # gen.drawn[1]
    /\ player = <<StreamAt(seed.deck, 7), StreamAt(seed.deck, 8)>>

\* C13: the two cards of the player are the first and second card the round
\* drew, those of the dealer the third and fourth, and the upcard (also the
\* one handed to the policy) is the third; right after the deal four cards
\* are drawn, nothing was asked and nothing is settled.
C13_DealOrder ==
    pc \in {"dealt", "player_turn", "decided", "dealer_turn", "returned"} =>
        LET k == Len(gen.drawn) - draws
        IN  /\ player[1] = gen.drawn[k + 1]
            /\ player[2] = gen.drawn[k + 2]
            /\ dealer[1] = gen.drawn[k + 3]
            /\ dealer[2] = gen.drawn[k + 4]
            /\ dealer_upcard = gen.drawn[k + 3]
            /\ decides > 0 => decide_args[2] = gen.drawn[k + 3]
            /\ pc = "dealt" =>
                  /\ draws = 4 /\ decides = 0
                  /\ Len(player) = 2 /\ Len(dealer) = 2
                  /\ action = "none" /\ res = NoResult

C13_Witness ==
    /\ pc = "decided"
    /\ i = 1
    /\ player[2] # dealer[1]
    /\ dealer[1] # dealer[2]
    /\ decide_args[2] = gen.drawn[Len(gen.drawn) - draws + 3]

\* a step of the call that asks the policy
DecideStep == decides' = decides + 1

\* a step inside one call of simulate (not the start of the second call)
CallStep == first' = first

ProvidedPolicy == policy # CustomPolicy

\* C18 as stated: within a call no step changes the Rules, the Policy
\* instance or anything the Policy instance holds, and decide leaves the
\* hand it was given as it was.
C18_ReadOnly ==
    [][(CallStep /\ ProvidedPolicy) =>
          /\ rules' = rules
          /\ policy' = policy
          /\ gen'.policy = gen.policy
          /\ DecideStep => (player' = player /\ decide_args'[1] = player)]_vars

\* C18, amended: within a call no step changes the Rules or the fields of
\* the Policy instance; the generator a RandomPolicy holds moves one choice
\* forward on each decide call and at no other step, the other provided
\* policies hold nothing that changes; decide leaves the hand as it was.
C18_ReadOnlyButGenerator ==
    [][(CallStep /\ ProvidedPolicy) =>
          /\ rules' = rules
          /\ policy' = policy
          /\ IF policy.name = "RandomPolicy" /\ DecideStep
             THEN gen'.policy = RngNext(gen.policy)
             ELSE gen'.policy = gen.policy
          /\ DecideStep => (player' = player /\ decide_args'[1] = player)]_vars

C18_Witness ==
    /\ pc = "decided"
    /\ policy = RandomPolicy
    /\ decides = 2
    /\ gen.policy = RngNext(RngNext(SeedState(seed.policy)))
    /\ decide_args[1] = player

RefDealerVal(rank) == IF rank = "A" THEN 11 ELSE BaseValue(rank)

RefAction(total, soft, dealerVal) ==
    IF total >= 21 THEN "stand"
    ELSE IF soft
    THEN CASE total >= 19 -> "stand"
           [] total = 18  -> IF dealerVal \in {9, 10, 11} THEN "hit" ELSE "stand"
           [] total <= 17 -> "hit"
    ELSE CASE total >= 17        -> "stand"
           [] total \in 13..16   ->
                 IF 2 <= dealerVal /\ dealerVal <= 6 THEN "stand" ELSE "hit"
           [] total = 12         ->
                 IF 4 <= dealerVal /\ dealerVal <= 6 THEN "stand" ELSE "hit"
           [] total <= 11        -> "hit"

\* C14: for every hand of two or more cards and every upcard,
\* BasicStrategyPolicy.decide gives the one answer the reference table gives
\* for the hand's total, its softness and the dealer value of the upcard.
C14_BasicStrategyTable ==
    (pc = "policy_asked" /\ Len(hand) >= 2) =>
        LET s     == BaseSum(hand)
            soft  == HasAce(hand) /\ s + 10 <= 21
            total == IF soft THEN s + 10 ELSE s
        IN  out.answer = {RefAction(total, soft, RefDealerVal(out.upcard))}

C14_Witness ==
    /\ pc = "policy_asked"
    /\ hand = <<"A", "7">>
    /\ out = [upcard |-> "A", answer |-> {"hit"}]

----------------------------------------------------------------------------
(* Properties of the results *)

\* total and softness of a hand, from the base values of its cards
RefSoft(h) == HasAce(h) /\ BaseSum(h) + 10 <= 21

RefTotal(h) == IF RefSoft(h) THEN BaseSum(h) + 10 ELSE BaseSum(h)

\* the dealer turn of the round ran: the player stood
DealerTurnRan == action = "stand"

\* C16: in every GameResult the totals are those of the final hands,
\* player_bust and dealer_bust say which total is over 21, player_blackjack
\* and dealer_blackjack say which hand is a two-card 21; dealer_bust is
\* false when the dealer turn did not run, and never both bust flags are set.
C16_FlagsAgreeWithHands ==
    pc = "returned" =>
        /\ res.player_total = RefTotal(player)
        /\ res.dealer_total = RefTotal(dealer)
        /\ res.player_bust = (res.player_total > 21)
        /\ res.dealer_bust = (res.dealer_total > 21)
        /\ res.player_blackjack = (Len(player) = 2 /\ RefTotal(player) = 21)
        /\ res.dealer_blackjack = (Len(dealer) = 2 /\ RefTotal(dealer) = 21)
        /\ ~DealerTurnRan => ~res.dealer_bust
        /\ ~(res.player_bust /\ res.dealer_bust)

C16_Witness ==
    /\ pc = "returned"
    /\ DealerTurnRan
    /\ res.dealer_bust
    /\ res.dealer_total = 22
    /\ ~res.player_bust

\* the dealer's hand before its k-th card was added
DealerHeld(k) == SubSeq(dealer, 1, k - 1)

\* C20: every card the dealer drew was drawn on a total below 17 or, with
\* dealer_hits_soft_17, on a soft 17; so without dealer_hits_soft_17 no card
\* is drawn on any 17; the dealer_total of a result after a dealer turn is in
\* 17..26, and with dealer_hits_soft_17 the final hand is no soft 17.
C20_DealerFinalTotal ==
    /\ pc \in {"dealer_turn", "returned"} =>
          \A k \in 3..Len(dealer) :
              \/ RefTotal(DealerHeld(k)) < 17
              \/ /\ RefTotal(DealerHeld(k)) = 17
                 /\ RefSoft(DealerHeld(k))
                 /\ rules.dealer_hits_soft_17
    /\ (pc = "returned" /\ DealerTurnRan) =>
          /\ res.dealer_total \in 17..26
          /\ rules.dealer_hits_soft_17 =>
                ~(RefTotal(dealer) = 17 /\ RefSoft(dealer))

C20_Witness ==
    /\ pc = "returned"
    /\ DealerTurnRan
    /\ res.dealer_total = 26
    /\ Len(dealer) = 3

----------------------------------------------------------------------------
(* Properties of the rounds that differ in the dealer's second card *)

\* the round in play and the kept round differ in the second dealer card
\* only, and neither dealer holds a natural
HoleCardPair ==
    /\ first # NoCall
    /\ InRound
    /\ Initial(player) = Initial(first.player)
    /\ dealer[1] = first.dealer[1]
    /\ dealer[2] # first.dealer[2]
    /\ RefTotal(Initial(dealer)) # 21
    /\ RefTotal(Initial(first.dealer)) # 21

\* C17: of two rounds that differ only in the dealer's second card, neither
\* dealer holding a natural, with the same player draws, the later one makes
\* the decide calls of the earlier one, with the same arguments and the same
\* answers, in the same order, and ends with the same player hand.
C17_HoleCardHidden ==
    HoleCardPair =>
        /\ IsPrefix(CallsOf(trail), first.calls)
        /\ IsPrefix(player, first.player)
        /\ \A k \in 1..Len(first.calls) :
              first.calls[k].args[2] = dealer[1]
        /\ pc = "returned" =>
              /\ CallsOf(trail) = first.calls
              /\ player = first.player

C17_Witness ==
    /\ HoleCardPair
    /\ pc = "returned"
    /\ Len(first.calls) >= 2
    /\ CallsOf(trail) = first.calls
    /\ Len(dealer) # Len(first.dealer)

----------------------------------------------------------------------------
(* Properties of the runs that have to end by themselves *)

\* C15: whatever the cards and the hit/stand answers, the player's hand
\* never has more than 22 cards and the dealer's never more than 17, and
\* simulate returns in the end, having played and folded exactly n_games
\* rounds.
C15_Termination ==
    /\ [](Len(player) <= 22 /\ Len(dealer) <= 17)
    /\ [](pc = "done" =>
             /\ i = n_games
             /\ wins + losses + pushes = n_games
             /\ summary.games = n_games)
    /\ <>(pc = "done")

C15_Witness ==
    /\ pc = "returned"
    /\ Len(player) = 22
    /\ res.player_bust
    /\ policy = RandomPolicy

====
